---- MODULE Spec2Model ----
(***************************************************************************)
(* Order checkout and payment reconciliation of the yenflowers backend     *)
(* (backend/app/routers/orders.py, backend/app/routers/admin.py).          *)
(*                                                                         *)
(* The data store is the shared state: the products' stock counters, one   *)
(* discount code row, the orders table and the order_items table.  A       *)
(* checkout request is a sequence of data-store calls; every call is one   *)
(* step of the request, and the steps of different requests interleave.    *)
(* The payment handlers (Stripe session, Stripe webhook, PayPal capture)    *)
(* and the admin status update each make at most one write, an update of   *)
(* one orders row filtered on its id, and are one step each; the answers   *)
(* of the payment providers are inputs of the step.  settings holds the    *)
(* provider credentials, fixed when the process starts.                    *)
(* Strings whose content matters (order numbers, districts) are sequences  *)
(* of one-character strings.  Python None / SQL NULL is 0 for the numeric   *)
(* columns that the code only tests for truthiness, and the string "null"  *)
(* for identifiers.                                                        *)
(***************************************************************************)
EXTENDS Integers, Sequences, FiniteSets, TLC

VARIABLES stock, dc, orders, order_items, req, now, last, ghost, settings

vars == <<stock, dc, orders, order_items, req, now, last, ghost, settings>>

\* ------------------------------------------------------------------ bounds
MaxLines == 2       \* cart lines per checkout request
MaxQty == 2         \* quantity per cart line
MaxStock == 2       \* initial stock of a product
MaxTime == 1        \* clock ticks (one tick is one day)

Null == "null"
NoTime == 0 - 1     \* paid_at IS NULL

\* ------------------------------------------------------- python primitives
DigitChars == <<"0", "1", "2", "3", "4", "5", "6", "7", "8", "9">>

IsDigit(c) == \E k \in 1..10 : DigitChars[k] = c

\* str(n) for n >= 0
RECURSIVE Str(_)
Str(n) == IF n < 10 THEN <<DigitChars[n + 1]>>
          ELSE Str(n \div 10) \o <<DigitChars[(n % 10) + 1]>>

\* zero padding to a width, as strftime does for %Y, %m and %d
RECURSIVE ZeroPad(_, _)
ZeroPad(s, width) == IF Len(s) >= width THEN s ELSE ZeroPad(<<"0">> \o s, width)

\* date.strftime("%Y%m%d")
Strftime(d) == ZeroPad(Str(d.y), 4) \o ZeroPad(Str(d.m), 2) \o ZeroPad(Str(d.d), 2)

\* str.lower() on the characters the districts use
LowerChar(c) ==
    CASE c = "Q" -> "q"
      [] c = "T" -> "t"
      [] c = "B" -> "b"
      [] c = "G" -> "g"
      [] c = "V" -> "v"
      [] OTHER -> c

Lower(s) == [k \in 1..Len(s) |-> LowerChar(s[k])]

StartsWith(s, p) == Len(s) >= Len(p) /\ SubSeq(s, 1, Len(p)) = p

\* str.replace(old, new): every non-overlapping occurrence, left to right
RECURSIVE Replace(_, _, _)
Replace(s, old, new) ==
    IF s = <<>> THEN <<>>
    ELSE IF StartsWith(s, old)
         THEN new \o Replace(SubSeq(s, Len(old) + 1, Len(s)), old, new)
         ELSE <<Head(s)>> \o Replace(Tail(s), old, new)

\* ------------------------------------------------------------------ clock
\* The clock counts days from StartDate; date.today() and datetime.utcnow()
\* both read it.
StartDate == [y |-> 2024, m |-> 12, d |-> 31]

IsLeap(y) == (y % 4 = 0 /\ y % 100 # 0) \/ y % 400 = 0

DaysInMonth(y, m) ==
    IF m = 2 THEN (IF IsLeap(y) THEN 29 ELSE 28)
    ELSE IF m \in {4, 6, 9, 11} THEN 30 ELSE 31

NextDay(d) ==
    IF d.d < DaysInMonth(d.y, d.m) THEN [d EXCEPT !.d = d.d + 1]
    ELSE IF d.m < 12 THEN [y |-> d.y, m |-> d.m + 1, d |-> 1]
    ELSE [y |-> d.y + 1, m |-> 1, d |-> 1]

RECURSIVE DateOf(_)
DateOf(t) == IF t = 0 THEN StartDate ELSE NextDay(DateOf(t - 1))

\* ---------------------------------------------------------------- catalog
\* The products table; is_published, price and sale_price are not written by
\* any operation modelled here.  "ghost" is an id with no row.
Products ==
    [rose  |-> [name_vi |-> "Hoa hong", price |-> 500000, sale_price |-> 450000,
                is_published |-> TRUE],
     lily  |-> [name_vi |-> "Hoa ly", price |-> 300000, sale_price |-> 0,
                is_published |-> TRUE],
     draft |-> [name_vi |-> "Ban nhap", price |-> 200000, sale_price |-> 0,
                is_published |-> FALSE]]

ProductRows == DOMAIN Products

ProductIds == ProductRows \cup {"ghost"}

\* The product_variants table; "v_gone" is an id with no row.
Variants == [v_big |-> [name_vi |-> "Lon", price_adjustment |-> 100000]]

\* OrderItemCreate: product_id, variant_id, quantity > 0
LineSamples ==
    [product_id : {"rose"}, variant_id : {Null}, quantity : 1..MaxQty]
        \cup [product_id : {"draft", "ghost"}, variant_id : {Null}, quantity : {1}]
        \cup [product_id : {"lily"}, variant_id : {"v_big"}, quantity : {1}]

RECURSIVE SeqsUpTo(_, _)
SeqsUpTo(S, n) ==
    IF n = 0 THEN {<<>>}
    ELSE LET shorter == SeqsUpTo(S, n - 1)
         IN shorter \cup {Append(q, x) : q \in {z \in shorter : Len(z) = n - 1}, x \in S}

CartSamples == SeqsUpTo(LineSamples, MaxLines)

DistrictSamples == {<<"1">>, <<"T", "a", "n", " ", "B", "i", "n", "h">>}

PaymentMethods == {"cod", "stripe", "paypal"}

\* discount_code of a request; the lookup upper-cases it
CodeSamples == {Null, "sale10"}

Upper(code) == IF code = "sale10" THEN "SALE10" ELSE code

\* OrderCreate bodies
OrderData ==
    [items : CartSamples, district : DistrictSamples,
     discount_code : CodeSamples, payment_method : PaymentMethods]

\* A timestamp column: unset, or an ISO string that parses to a naive datetime
\* (no offset) or to an aware one ("Z" or "+00:00" suffix).
NoStamp == [set |-> FALSE, t |-> 0, aware |-> FALSE]

Stamp(t, aware) == [set |-> TRUE, t |-> t, aware |-> aware]

\* Rows the discount_codes table may hold for the code "SALE10".
DiscountRow(type, value, min, max, used, starts, expires, active) ==
    [code |-> "SALE10", discount_type |-> type, discount_value |-> value,
     min_order_value |-> min, max_uses |-> max, used_count |-> used,
     starts_at |-> starts, expires_at |-> expires, is_active |-> active]

DiscountSamples ==
    {DiscountRow("percentage", 10, 0, 1, 0, NoStamp, NoStamp, TRUE),
     DiscountRow("fixed", 50000, 400000, 2, 1, NoStamp, NoStamp, TRUE),
     DiscountRow("percentage", 10, 0, 1, 1, NoStamp, NoStamp, TRUE),
     DiscountRow("percentage", 10, 0, 2, 0, Stamp(1, FALSE), NoStamp, TRUE),
     DiscountRow("fixed", 50000, 0, 2, 0, NoStamp, Stamp(0, FALSE), TRUE),
     DiscountRow("percentage", 10, 0, 2, 0, NoStamp, Stamp(0, TRUE), TRUE),
     DiscountRow("percentage", 10, 0, 2, 0, NoStamp, NoStamp, FALSE)}

\* ------------------------------------------------------- pure computations
\* random.randint(lo, hi), sampled at its two extremes
RandInt(lo, hi) == {lo, hi}

generate_order_number(today, suffix) ==
    <<"Y", "F", "-">> \o Strftime(today) \o <<"-">> \o Str(suffix)

OrderNumberSuffixes_Wide == RandInt(1, 999)

OrderNumberSuffixes == RandInt(100, 999)

district_fees(key) ==
    CASE key = <<"1">> -> 25000
      [] key = <<"3">> -> 25000
      [] key = <<"5">> -> 30000
      [] key = <<"7">> -> 35000
      [] key = <<"t", "a", "n", "_", "b", "i", "n", "h">> -> 35000
      [] key = <<"g", "o", "_", "v", "a", "p">> -> 40000
      [] OTHER -> 35000

district_key(district) ==
    Replace(Replace(Replace(Lower(district), <<" ">>, <<"_">>),
                    <<"q", "u", "a^", "n", " ">>, <<>>),
            <<"q", "u", "a", "n", " ">>, <<>>)

calculate_delivery_fee(district) == district_fees(district_key(district))

\* prod.get("sale_price") or prod["price"], plus the variant's adjustment
price_adjustment(variant_id) ==
    IF variant_id # Null /\ variant_id \in DOMAIN Variants
    THEN Variants[variant_id].price_adjustment ELSE 0

unit_price(prod, variant_id) ==
    (IF prod.sale_price # 0 THEN prod.sale_price ELSE prod.price)
        + price_adjustment(variant_id)

\* The checks of one cart line against its product row
product_found(pid) == pid \in ProductRows

not_published_Skipped(prod) == FALSE

not_published(prod) == ~prod.is_published

insufficient_stock_OffByOne(stock_quantity, quantity) == stock_quantity < quantity - 1

insufficient_stock_Never(stock_quantity, quantity) == FALSE

insufficient_stock(stock_quantity, quantity) == stock_quantity < quantity

\* Comparison of a parsed timestamp column with datetime.utcnow(), which is
\* naive: an aware value raises TypeError.
CompareRaises(stamp) == stamp.set /\ stamp.aware

discount_verdict_OffByOne(d, subtotal, t) ==
    IF d.starts_at.set /\ CompareRaises(d.starts_at) THEN "error"
    ELSE IF d.starts_at.set /\ d.starts_at.t > t THEN "skip"
    ELSE IF d.expires_at.set /\ CompareRaises(d.expires_at) THEN "error"
    ELSE IF d.expires_at.set /\ d.expires_at.t < t THEN "skip"
    ELSE IF d.max_uses # 0 /\ d.used_count > d.max_uses THEN "skip"
    ELSE IF d.min_order_value # 0 /\ subtotal < d.min_order_value THEN "skip"
    ELSE "apply"

\* The validity chain of the discount: "error" (TypeError), "skip" or "apply".
discount_verdict(d, subtotal, t) ==
    IF d.starts_at.set /\ CompareRaises(d.starts_at) THEN "error"
    ELSE IF d.starts_at.set /\ d.starts_at.t > t THEN "skip"
    ELSE IF d.expires_at.set /\ CompareRaises(d.expires_at) THEN "error"
    ELSE IF d.expires_at.set /\ d.expires_at.t < t THEN "skip"
    ELSE IF d.max_uses # 0 /\ d.used_count >= d.max_uses THEN "skip"
    ELSE IF d.min_order_value # 0 /\ subtotal < d.min_order_value THEN "skip"
    ELSE "apply"

discount_value_of(d, subtotal) ==
    IF d.discount_type = "percentage"
    THEN (subtotal * d.discount_value) \div 100
    ELSE d.discount_value

RECURSIVE SumTotal(_)
SumTotal(rows) ==
    IF rows = <<>> THEN 0 ELSE Head(rows).total_price + SumTotal(Tail(rows))

\* ------------------------------------------------------------------ state
\* A request: its body, the locals of create_order, its response, and what it
\* did so far (writes, the stock each validated line read, the log of its steps).
IdleReq ==
    [pc |-> "idle", items |-> <<>>, district |-> <<>>, discount_code |-> Null,
     payment_method |-> Null, i |-> 0, order_items |-> <<>>, subtotal |-> 0,
     shipping_fee |-> 0, d_used |-> 0, discount_amount |-> 0, total |-> 0,
     order_id |-> 0, created_items |-> <<>>, new_qty |-> 0,
     status |-> 0, detail |-> Null,
     writes |-> 0, applied |-> FALSE, verdict |-> Null, at |-> 0,
     stock0 |-> [p \in ProductRows |-> 0], used0 |-> 0,
     seen |-> <<>>, log |-> <<>>]

Slots == {1, 2}

\* The operation of the latest step: its name, the order id it was given (0 for
\* none), the event type and the response status.
\* The payment operations add the error detail, the number of calls made to the
\* payment provider, the line items sent to it, and whether the provider itself
\* sent the request.
Op(name, order_id, type, status) ==
    [op |-> name, order_id |-> order_id, type |-> type, status |-> status,
     detail |-> Null, calls |-> 0, line_items |-> <<>>, genuine |-> FALSE]

NoOp == Op("none", 0, Null, 0)

CheckoutOp == Op("checkout", 0, Null, 0)

\* Settings: the provider credentials, "" when not configured
Settings(stripe_key, paypal_id, paypal_secret) ==
    [stripe_secret_key |-> stripe_key, paypal_client_id |-> paypal_id,
     paypal_client_secret |-> paypal_secret]

SettingsSamples ==
    {Settings("sk_test", "client", "secret"),
     Settings("", "", ""),
     Settings("sk_test", "client", ""),
     Settings("", "", "secret")}

Init ==
    /\ stock \in {f \in [ProductRows -> 1..MaxStock] :
                     f["lily"] = MaxStock /\ f["draft"] = MaxStock}
    /\ dc \in DiscountSamples
    /\ orders = <<>>
    /\ order_items = <<>>
    /\ req = [r \in Slots |-> IdleReq]
    /\ now = 0
    /\ last = NoOp
    /\ ghost = [applied |-> 0, used_init |-> dc.used_count, delivered |-> {},
                stock_init |-> stock]
    /\ settings = Settings("sk_test", "client", "secret")

\* --------------------------------------------------------------- checkout
Fail(r, code, why) ==
    req' = [req EXCEPT ![r].pc = "failed", ![r].status = code, ![r].detail = why]

\* create_order, entry: the request state after the empty-cart check
Admitted(order_data, st, used) ==
    [IdleReq EXCEPT !.pc = "validate",
                    !.items = order_data.items,
                    !.district = order_data.district,
                    !.discount_code = order_data.discount_code,
                    !.payment_method = order_data.payment_method,
                    !.i = 1, !.stock0 = st, !.used0 = used]

checkout_entry_NoEmptyCheck(order_data, st, used) ==
    IF order_data.items = <<>>
    THEN [Admitted(order_data, st, used) EXCEPT
             !.i = 0,
             !.shipping_fee = calculate_delivery_fee(order_data.district),
             !.pc = IF order_data.discount_code # Null THEN "discount_select"
                    ELSE "insert_order"]
    ELSE Admitted(order_data, st, used)

checkout_entry(order_data, st, used) ==
    IF order_data.items = <<>>
    THEN [Admitted(order_data, st, used) EXCEPT
             !.pc = "failed", !.i = 0, !.status = 400, !.detail = "empty"]
    ELSE Admitted(order_data, st, used)

Checkout(r, order_data) ==
    /\ req[r].pc = "idle"
    /\ last' = CheckoutOp
    /\ req' = [req EXCEPT ![r] = checkout_entry(order_data, stock, dc.used_count)]
    /\ UNCHANGED <<stock, dc, orders, order_items, now, ghost, settings>>

ValidateLine_DecrementsEarly(r) ==
    LET q == req[r]
        item == q.items[q.i]
        pid == item.product_id
        more == q.i < Len(q.items)
    IN
    /\ q.pc = "validate"
    /\ product_found(pid)
    /\ last' = CheckoutOp
    /\ stock' = [stock EXCEPT ![pid] = @ - item.quantity]
    /\ req' = [req EXCEPT ![r].log = @ \o <<"validate", "price">>,
                          ![r].i = IF more THEN @ + 1 ELSE 0,
                          ![r].pc = IF more THEN "validate" ELSE "insert_order"]
    /\ UNCHANGED <<dc, orders, order_items, now, ghost, settings>>

\* create_order, one iteration of the validation loop: the product select, the
\* three checks, the variant select and the pricing of the line.  After the last
\* line the delivery fee is computed.
ValidateLine(r) ==
    LET q == req[r]
        item == q.items[q.i]
        pid == item.product_id
    IN
    /\ q.pc = "validate"
    /\ last' = CheckoutOp
    /\ IF ~product_found(pid) THEN Fail(r, 400, "not_found")
       ELSE IF not_published(Products[pid]) THEN Fail(r, 400, "unpublished")
       ELSE IF insufficient_stock(stock[pid], item.quantity)
            THEN Fail(r, 400, "insufficient_stock")
       ELSE LET up == unit_price(Products[pid], item.variant_id)
                row == [product_id |-> pid, variant_id |-> item.variant_id,
                        quantity |-> item.quantity, unit_price |-> up,
                        total_price |-> up * item.quantity]
                more == q.i < Len(q.items)
            IN req' = [req EXCEPT
                         ![r].seen = Append(@, stock[pid]),
                         ![r].log = @ \o <<"validate", "price">>,
                         ![r].order_items = Append(@, row),
                         ![r].subtotal = @ + row.total_price,
                         ![r].i = IF more THEN @ + 1 ELSE 0,
                         ![r].shipping_fee =
                             IF more THEN @ ELSE calculate_delivery_fee(q.district),
                         ![r].pc = IF more THEN "validate"
                                   ELSE IF q.discount_code # Null THEN "discount_select"
                                   ELSE "insert_order"]
    /\ UNCHANGED <<stock, dc, orders, order_items, now, ghost, settings>>

\* create_order: the discount_codes select and the validity chain
DiscountSelect(r) ==
    LET q == req[r]
        found == Upper(q.discount_code) = dc.code /\ dc.is_active
        verdict == IF found THEN discount_verdict(dc, q.subtotal, now) ELSE "none"
    IN
    /\ q.pc = "discount_select"
    /\ last' = CheckoutOp
    /\ IF verdict = "error"
       THEN req' = [req EXCEPT ![r].pc = "failed", ![r].status = 500,
                               ![r].detail = "type_error", ![r].verdict = verdict,
                               ![r].at = now]
       ELSE IF verdict = "apply"
       THEN req' = [req EXCEPT ![r].pc = "discount_update",
                               ![r].verdict = verdict, ![r].at = now,
                               ![r].d_used = dc.used_count,
                               ![r].discount_amount = discount_value_of(dc, q.subtotal)]
       ELSE req' = [req EXCEPT ![r].pc = "insert_order", ![r].verdict = verdict,
                               ![r].at = now]
    /\ UNCHANGED <<stock, dc, orders, order_items, now, ghost, settings>>

\* create_order: the used_count update, written from the value read before
DiscountUpdate(r) ==
    /\ req[r].pc = "discount_update"
    /\ last' = CheckoutOp
    /\ dc' = [dc EXCEPT !.used_count = req[r].d_used + 1]
    /\ req' = [req EXCEPT ![r].pc = "insert_order", ![r].applied = TRUE,
                          ![r].log = Append(@, "discount"),
                          ![r].writes = @ + 1]
    /\ ghost' = [ghost EXCEPT !.applied = @ + 1]
    /\ UNCHANGED <<stock, orders, order_items, now, settings>>

\* create_order: the total of the order
order_total(q) == q.subtotal + q.shipping_fee - q.discount_amount

new_order_ConfirmedOnCod(q, t, suffix) ==
    [order_number |-> generate_order_number(DateOf(t), suffix),
     shipping_fee |-> q.shipping_fee,
     subtotal |-> q.subtotal,
     discount_amount |-> q.discount_amount,
     total |-> order_total(q),
     payment_method |-> q.payment_method,
     order_status |-> IF q.payment_method = "cod" THEN "confirmed" ELSE "pending",
     payment_status |-> "pending",
     payment_intent_id |-> Null,
     paid_at |-> NoTime,
     created_at |-> t]

\* create_order: the row given to the orders insert, with the columns the
\* data store fills in (payment_intent_id and paid_at NULL, created_at now)
new_order(q, t, suffix) ==
    [order_number |-> generate_order_number(DateOf(t), suffix),
     shipping_fee |-> q.shipping_fee,
     subtotal |-> q.subtotal,
     discount_amount |-> q.discount_amount,
     total |-> order_total(q),
     payment_method |-> q.payment_method,
     order_status |-> "pending",
     payment_status |-> "pending",
     payment_intent_id |-> Null,
     paid_at |-> NoTime,
     created_at |-> t]

InsertOrder_RevertsDiscount(r, suffix, ok) ==
    LET q == req[r]
        total == order_total(q)
        order == new_order(q, now, suffix)
    IN
    /\ q.pc = "insert_order"
    /\ last' = CheckoutOp
    /\ IF ok
       THEN /\ orders' = Append(orders, order)
            /\ dc' = dc
            /\ req' = [req EXCEPT ![r].pc = "insert_item", ![r].i = 1,
                                  ![r].total = total,
                                  ![r].order_id = Len(orders) + 1,
                                  ![r].log = Append(@, "order"),
                                  ![r].writes = @ + 1]
       ELSE /\ orders' = orders
            /\ dc' = [dc EXCEPT !.used_count = IF q.applied THEN @ - 1 ELSE @]
            /\ req' = [req EXCEPT ![r].pc = "failed", ![r].status = 500,
                                  ![r].total = total,
                                  ![r].detail = "insert_failed"]
    /\ UNCHANGED <<stock, order_items, now, ghost, settings>>

\* create_order: the total, the order number and the orders insert; ok is
\* whether the insert returned the row
InsertOrder(r, suffix, ok) ==
    LET q == req[r]
        total == order_total(q)
        order == new_order(q, now, suffix)
    IN
    /\ q.pc = "insert_order"
    /\ last' = CheckoutOp
    /\ IF ok
       THEN /\ orders' = Append(orders, order)
            /\ req' = [req EXCEPT ![r].pc = "insert_item", ![r].i = 1,
                                  ![r].total = total,
                                  ![r].order_id = Len(orders) + 1,
                                  ![r].log = Append(@, "order"),
                                  ![r].writes = @ + 1]
       ELSE /\ orders' = orders
            /\ req' = [req EXCEPT ![r].pc = "failed", ![r].status = 500,
                                  ![r].total = total,
                                  ![r].detail = "insert_failed"]
    /\ UNCHANGED <<stock, dc, order_items, now, ghost, settings>>

InsertItem_RollsBack(r, ok) ==
    LET q == req[r]
        row == [order_id |-> q.order_id] @@ q.order_items[q.i]
        more == q.i < Len(q.order_items)
    IN
    /\ q.pc = "insert_item"
    /\ last' = CheckoutOp
    /\ order_items' = IF ok THEN Append(order_items, row) ELSE order_items
    /\ orders' = IF ok THEN orders ELSE SubSeq(orders, 1, q.order_id - 1)
    /\ req' = [req EXCEPT ![r].created_items = IF ok THEN Append(@, row) ELSE @,
                          ![r].log = Append(@, "item"),
                          ![r].writes = IF ok THEN @ + 1 ELSE @,
                          ![r].i = IF more THEN @ + 1 ELSE 1,
                          ![r].pc = IF more THEN "insert_item" ELSE "stock_select"]
    /\ UNCHANGED <<stock, dc, now, ghost, settings>>

\* create_order, one iteration of the item loop; ok is whether the insert
\* returned the row
InsertItem(r, ok) ==
    LET q == req[r]
        row == [order_id |-> q.order_id] @@ q.order_items[q.i]
        more == q.i < Len(q.order_items)
    IN
    /\ q.pc = "insert_item"
    /\ last' = CheckoutOp
    /\ order_items' = IF ok THEN Append(order_items, row) ELSE order_items
    /\ req' = [req EXCEPT ![r].created_items = IF ok THEN Append(@, row) ELSE @,
                          ![r].log = Append(@, "item"),
                          ![r].writes = IF ok THEN @ + 1 ELSE @,
                          ![r].i = IF more THEN @ + 1 ELSE 1,
                          ![r].pc = IF more THEN "insert_item" ELSE "stock_select"]
    /\ UNCHANGED <<stock, dc, orders, now, ghost, settings>>

\* create_order, stock loop: the select of the current stock_quantity
StockSelect(r) ==
    LET q == req[r]
        item == q.items[q.i]
    IN
    /\ q.pc = "stock_select"
    /\ last' = CheckoutOp
    /\ req' = [req EXCEPT ![r].pc = "stock_update",
                          ![r].new_qty = stock[item.product_id] - item.quantity]
    /\ UNCHANGED <<stock, dc, orders, order_items, now, ghost, settings>>

\* create_order, stock loop: the update with the quantity computed from the select
StockUpdate(r) ==
    LET q == req[r]
        item == q.items[q.i]
        more == q.i < Len(q.items)
    IN
    /\ q.pc = "stock_update"
    /\ last' = CheckoutOp
    /\ stock' = [stock EXCEPT ![item.product_id] = q.new_qty]
    /\ req' = [req EXCEPT ![r].writes = @ + 1,
                          ![r].log = Append(@, "stock"),
                          ![r].i = IF more THEN @ + 1 ELSE 0,
                          ![r].pc = IF more THEN "stock_select" ELSE "done",
                          ![r].status = IF more THEN @ ELSE 200,
                          ![r].detail = IF more THEN @ ELSE "ok"]
    /\ UNCHANGED <<dc, orders, order_items, now, ghost, settings>>

\* The clock advances between requests: one tick is a day, and a checkout
\* request answers within the day it arrived.
Tick ==
    /\ now < MaxTime
    /\ \A r \in Slots : req[r].pc \in {"idle", "done", "failed"}
    /\ now' = now + 1
    /\ last' = Op("tick", 0, Null, 0)
    /\ UNCHANGED <<stock, dc, orders, order_items, req, ghost, settings>>

CheckoutSteps(r) ==
    \/ \E od \in OrderData : Checkout(r, od)
    \/ ValidateLine(r)
    \/ DiscountSelect(r)
    \/ DiscountUpdate(r)
    \/ \E suffix \in OrderNumberSuffixes, ok \in BOOLEAN : InsertOrder(r, suffix, ok)
    \/ \E ok \in BOOLEAN : InsertItem(r, ok)
    \/ StockSelect(r)
    \/ StockUpdate(r)

\* One checkout request, from any of the initial states of the data store.
Next ==
    \/ CheckoutSteps(1)
    \/ Tick

Spec == Init /\ [][Next]_vars

\* The request bodies of the interleaved runs: carts of one rose line.
ConcOrderData ==
    {od \in OrderData : /\ Len(od.items) = 1
                        /\ od.items[1].product_id = "rose"
                        /\ od.district = <<"1">>
                        /\ od.payment_method = "cod"}

\* One request per slot, interleaved at their data-store calls; every insert
\* returns its row.
NextConc ==
    \/ \E r \in Slots :
          \/ \E od \in ConcOrderData : Checkout(r, od)
          \/ ValidateLine(r)
          \/ DiscountSelect(r)
          \/ DiscountUpdate(r)
          \/ \E suffix \in OrderNumberSuffixes : InsertOrder(r, suffix, TRUE)
          \/ InsertItem(r, TRUE)
          \/ StockSelect(r)
          \/ StockUpdate(r)
    \/ Tick

SpecConc == Init /\ [][NextConc]_vars

\* ------------------------------------------------------------ claims C1-C8
Finished(q) == q.pc \in {"done", "failed"}

RECURSIVE CartSum(_)
CartSum(items) ==
    IF items = <<>> THEN 0
    ELSE LET line == Head(items)
             prod == Products[line.product_id]
             base == IF prod.sale_price # 0 THEN prod.sale_price ELSE prod.price
             adj == IF line.variant_id = "v_big" THEN 100000 ELSE 0
         IN (base + adj) * line.quantity + CartSum(Tail(items))

ItemsOf(order_id) == SelectSeq(order_items, LAMBDA row : row.order_id = order_id)

DataStoreUntouched(q) ==
    /\ q.writes = 0
    /\ orders = <<>>
    /\ order_items = <<>>
    /\ stock = q.stock0
    /\ dc.used_count = q.used0

\* C1: for every checkout that succeeds, the persisted order's total is the sum
\* over the cart lines of unit_price * quantity, plus shipping_fee, minus
\* discount_amount, and that sum over the cart lines equals the sum of
\* total_price of the order_items rows persisted for the order.
C1_TotalMatchesPersistedItems ==
    \A r \in Slots :
        req[r].pc = "done" =>
            LET o == orders[req[r].order_id]
                lines == CartSum(req[r].items)
            IN /\ o.total = lines + o.shipping_fee - o.discount_amount
               /\ lines = SumTotal(ItemsOf(req[r].order_id))

\* C2: a checkout request with an empty items list returns 400 and performs no
\* write: no order row, no order_items row, no stock change, no used_count change.
C2_EmptyCartNoWrite ==
    \A r \in Slots :
        (req[r].pc # "idle" /\ req[r].items = <<>>) =>
            /\ req[r].pc = "failed"
            /\ req[r].status = 400
            /\ req[r].detail = "empty"
            /\ DataStoreUntouched(req[r])

C2_Witness == \E r \in Slots : req[r].pc = "failed" /\ req[r].items = <<>>

Overstocked(line, st) ==
    /\ line.product_id \in ProductRows
    /\ line.quantity > st[line.product_id]

Listed(line) ==
    /\ line.product_id \in ProductRows
    /\ Products[line.product_id].is_published

\* C3, as stated: if any line of a cart asks for more than the product's current
\* stock, the checkout returns 400 InsufficientStock and the stock of every
\* product is unchanged.
C3_AlwaysInsufficientStock ==
    \A r \in Slots :
        LET q == req[r] IN
        (Finished(q) /\ \E k \in 1..Len(q.items) : Overstocked(q.items[k], q.stock0)) =>
            /\ q.pc = "failed"
            /\ q.status = 400
            /\ q.detail = "insufficient_stock"
            /\ stock = q.stock0

\* C3, amended: if any line of a cart asks for more than the product's current
\* stock, the checkout returns 400, with the InsufficientStock detail when every
\* product of the cart exists and is published, and the stock of every product
\* is unchanged, also for the lines that passed validation before the failing one.
C3_InsufficientStockNoChange ==
    \A r \in Slots :
        LET q == req[r] IN
        (Finished(q) /\ \E k \in 1..Len(q.items) : Overstocked(q.items[k], q.stock0)) =>
            /\ q.pc = "failed"
            /\ q.status = 400
            /\ (\A k \in 1..Len(q.items) : Listed(q.items[k]))
                   => q.detail = "insufficient_stock"
            /\ stock = q.stock0
            /\ q.writes = 0

C3_Witness ==
    \E r \in Slots :
        /\ req[r].detail = "insufficient_stock"
        /\ req[r].i = 2
        /\ Len(req[r].order_items) = 1

LineInvalid(line, st) ==
    \/ line.product_id \notin ProductRows
    \/ ~Products[line.product_id].is_published
    \/ line.quantity > st[line.product_id]

\* C4: if any cart line fails validation (no such product, unpublished product,
\* quantity above stock), the checkout aborts with 400 before any write,
\* whatever the position of the failing line: no order, no order item, no stock
\* decrement, no used_count increment.
C4_InvalidLineAbortsBeforeWrite ==
    \A r \in Slots :
        LET q == req[r] IN
        (Finished(q) /\ \E k \in 1..Len(q.items) : LineInvalid(q.items[k], q.stock0)) =>
            /\ q.pc = "failed"
            /\ q.status = 400
            /\ q.detail \in {"not_found", "unpublished", "insufficient_stock"}
            /\ DataStoreUntouched(q)

C4_Witness ==
    \E r \in Slots :
        /\ req[r].detail = "unpublished"
        /\ req[r].i = 2
        /\ Len(req[r].order_items) = 1
        /\ req[r].discount_code # Null

\* C5: in every reachable state, after any checkouts (concurrent ones included)
\* that use a discount code with a limit, used_count does not exceed max_uses.
C5_UsedCountWithinMaxUses ==
    dc.max_uses # 0 => dc.used_count <= dc.max_uses

C5_Witness ==
    /\ ghost.applied = 2
    /\ dc.max_uses # 0
    /\ dc.used_count = dc.max_uses

\* C6: after N checkouts that applied the code, used_count is its initial value
\* plus N; a checkout that does not apply the code leaves used_count unchanged.
C6_UsedCountCountsApplications ==
    dc.used_count = ghost.used_init + ghost.applied

NotStarted(d, t) == d.starts_at.set /\ d.starts_at.t > t

Expired(d, t) == d.expires_at.set /\ d.expires_at.t < t

Exhausted(d, used) == d.max_uses # 0 /\ used >= d.max_uses

BelowMinimum(d, subtotal) == d.min_order_value # 0 /\ subtotal < d.min_order_value

\* C7: a checkout carrying a code that is not yet started, expired, exhausted or
\* below its min_order_value does not fail for it: the discount is 0, used_count
\* is unchanged, and the order is created with discount_amount = 0.
C7_InvalidDiscountNeverBlocks ==
    \A r \in Slots :
        LET q == req[r] IN
        (/\ q.verdict # Null
         /\ Upper(q.discount_code) = dc.code /\ dc.is_active
         /\ \/ NotStarted(dc, q.at)
            \/ Expired(dc, q.at)
            \/ Exhausted(dc, q.used0)
            \/ BelowMinimum(dc, q.subtotal)) =>
            /\ q.discount_amount = 0
            /\ ~q.applied
            /\ dc.used_count = q.used0
            /\ q.pc = "failed" => q.detail = "insert_failed"
            /\ q.pc = "done" => orders[q.order_id].discount_amount = 0

DigitValue(c) == (CHOOSE k \in 1..10 : DigitChars[k] = c) - 1

RECURSIVE Number(_)
Number(s) ==
    IF s = <<>> THEN 0
    ELSE 10 * Number(SubSeq(s, 1, Len(s) - 1)) + DigitValue(s[Len(s)])

\* C8: every order number has the form YF-YYYYMMDD-DDD, YYYYMMDD being the
\* creation date and DDD exactly three decimal digits.
C8_OrderNumberFormat ==
    \A k \in 1..Len(orders) :
        LET n == orders[k].order_number
            day == DateOf(orders[k].created_at)
        IN /\ Len(n) = 15
           /\ SubSeq(n, 1, 3) = <<"Y", "F", "-">>
           /\ n[12] = "-"
           /\ \A j \in (4..11) \cup (13..15) : IsDigit(n[j])
           /\ Number(SubSeq(n, 4, 7)) = day.y
           /\ Number(SubSeq(n, 8, 9)) = day.m
           /\ Number(SubSeq(n, 10, 11)) = day.d

C8_Witness ==
    \E k \in 1..Len(orders) :
        /\ orders[k].created_at = 1
        /\ SubSeq(orders[k].order_number, 13, 15) = <<"9", "9", "9">>

\* --------------------------------------------------------------- payments
EventTypes == {"checkout.session.completed", "payment_intent.succeeded"}

\* order ids a request may name: none (0), the rows of the table, an unknown id
OrderIdSamples == {0, 1, 2, 9}

\* order ids of a path parameter, which is never absent
PathIdSamples == OrderIdSamples \ {0}

\* Where a webhook payload carries the session: every key present ("full"),
\* the "data" key absent, or one of the keys holding null.
PayloadShapes == {"full", "no_data", "data_null", "object_null", "metadata_null"}

\* Webhook payloads.  genuine is whether Stripe sent the event; the endpoint
\* takes the payload as a plain dict and has no signature to look at.
WebhookPayloads ==
    {p \in [type : EventTypes, shape : PayloadShapes,
            order_id : OrderIdSamples, genuine : BOOLEAN] :
        /\ p.genuine => p.shape = "full"
        /\ p.shape # "full" => p.order_id = 0}

\* payload.get("data", {}).get("object", {}) and session.get("metadata", {}):
\* the default stands in for an absent key only, and .get on null raises
\* AttributeError
extraction_raises(shape) == shape \in {"data_null", "object_null", "metadata_null"}

\* session.get("metadata", {}).get("order_id"), 0 for None
session_order_id(shape, order_id) == IF shape = "full" THEN order_id ELSE 0

webhook_update_AllRows(rows, order_id, t) ==
    [k \in DOMAIN rows |->
        [rows[k] EXCEPT !.payment_status = "paid", !.order_status = "confirmed",
                        !.paid_at = t]]

\* stripe_webhook: the orders update, filtered on the id
webhook_update(rows, order_id, t) ==
    [k \in DOMAIN rows |->
        IF k = order_id
        THEN [rows[k] EXCEPT !.payment_status = "paid", !.order_status = "confirmed",
                             !.paid_at = t]
        ELSE rows[k]]

\* stripe_webhook: one delivery of an event
StripeWebhook(payload) ==
    LET completed == payload.type = "checkout.session.completed"
        raises == completed /\ extraction_raises(payload.shape)
        order_id == IF completed /\ ~raises
                    THEN session_order_id(payload.shape, payload.order_id) ELSE 0
    IN
    /\ last' = [Op("stripe_webhook", order_id, payload.type,
                   IF raises THEN 500 ELSE 200)
                  EXCEPT !.genuine = payload.genuine,
                         !.detail = IF raises THEN "attribute_error" ELSE "received"]
    /\ IF order_id # 0
       THEN /\ orders' = webhook_update(orders, order_id, now)
            /\ ghost' = [ghost EXCEPT !.delivered = @ \cup ({order_id} \cap DOMAIN orders)]
       ELSE UNCHANGED <<orders, ghost>>
    /\ UNCHANGED <<stock, dc, order_items, req, now, settings>>

\* OrderStatusUpdate bodies: a field is unset or carries a string
Unset == "unset"

PatchSamples ==
    [order_status : {Unset, "processing", "delivered"},
     payment_status : {Unset, "refunded"}]

update_data_WithDefaults(patch) == DOMAIN patch

\* update.model_dump(exclude_unset=True): the fields the body carries
update_data(patch) == {f \in DOMAIN patch : patch[f] # Unset}

apply_patch(row, patch) ==
    [row EXCEPT
        !.order_status = IF patch.order_status = Unset THEN @ ELSE patch.order_status,
        !.payment_status = IF patch.payment_status = Unset THEN @ ELSE patch.payment_status]

\* update_order_status (admin): 400 on an empty patch, 404 on no row
AdminUpdate(order_id, patch) ==
    LET empty == update_data(patch) = {}
        found == order_id \in DOMAIN orders
    IN
    /\ last' = [Op("admin_update", order_id, Null,
                   IF empty THEN 400 ELSE IF found THEN 200 ELSE 404)
                  EXCEPT !.detail = IF empty THEN "no_fields"
                                    ELSE IF found THEN "ok" ELSE "not_found"]
    /\ orders' = IF ~empty /\ found
                 THEN [orders EXCEPT ![order_id] = apply_patch(@, patch)]
                 ELSE orders
    /\ UNCHANGED <<stock, dc, order_items, req, now, ghost, settings>>

\* ---------------------------------------------------------- stripe adapter
stripe_configured(st) == st.stripe_secret_key # ""

SessionIds == {"cs_1"}

stripe_line_items_Subtotal(order) ==
    <<[currency |-> "vnd", unit_amount |-> order.subtotal, quantity |-> 1]>>

\* create_stripe_checkout: the line_items given to Session.create
stripe_line_items(order) ==
    <<[currency |-> "vnd", unit_amount |-> order.total, quantity |-> 1]>>

\* create_stripe_checkout; created is whether Session.create returned a session
\* (otherwise it raised StripeError)
StripeCheckout(order_id, session_id, created) ==
    LET found == order_id \in DOMAIN orders
        op == Op("stripe_checkout", order_id, Null, 0)
    IN
    /\ IF ~stripe_configured(settings)
       THEN /\ last' = [op EXCEPT !.status = 500, !.detail = "not_configured"]
            /\ orders' = orders
       ELSE IF ~found
       THEN /\ last' = [op EXCEPT !.status = 404, !.detail = "not_found"]
            /\ orders' = orders
       ELSE IF ~created
       THEN /\ last' = [op EXCEPT !.status = 400, !.detail = "stripe_error",
                                  !.calls = 1,
                                  !.line_items = stripe_line_items(orders[order_id])]
            /\ orders' = orders
       ELSE /\ last' = [op EXCEPT !.status = 200, !.detail = session_id,
                                  !.calls = 1,
                                  !.line_items = stripe_line_items(orders[order_id])]
            /\ orders' = [orders EXCEPT ![order_id].payment_intent_id = session_id]
    /\ UNCHANGED <<stock, dc, order_items, req, now, ghost, settings>>

\* ---------------------------------------------------------- paypal adapter
paypal_configured_IdOnly(st) == st.paypal_client_id # ""

paypal_configured(st) == st.paypal_client_id # "" /\ st.paypal_client_secret # ""

PayPalOrderIds == {"PAY-1"}

ProviderStatuses == {"COMPLETED", "APPROVED"}

\* What one call to the provider gives: httpx.HTTPError raised, or a response
\* with its status code and the "status" of its JSON body
Response(raised, code, status) == [raised |-> raised, code |-> code, status |-> status]

Raised == Response(TRUE, 0, Null)

\* the place of a response to a call that the request does not make
NotCalled == Response(FALSE, 0, Null)

TokenResponses == {Response(FALSE, 200, Null), Response(FALSE, 401, Null), Raised}

\* a 200 or 201 carries the order with its status, a 422 an error body
CaptureResponses ==
    {Response(FALSE, c, st) : c \in {200, 201}, st \in ProviderStatuses}
        \cup {Response(FALSE, 422, Null), Raised}

DetailsResponses ==
    {Response(FALSE, 200, st) : st \in ProviderStatuses}
        \cup {Response(FALSE, 404, Null), Raised}

\* the capture response is taken unless its code is neither 201 nor 200
capture_accepted(code) == code = 201 \/ code = 200

\* The provider's answers to the token, capture and details calls of one
\* request; a call made only after a failure of the call before it has an
\* answer only then.
PayPalScripts ==
    {s \in [token : TokenResponses,
            capture : CaptureResponses \cup {NotCalled},
            details : DetailsResponses \cup {NotCalled}] :
        /\ s.capture = NotCalled <=> (s.token.raised \/ s.token.code >= 400)
        /\ s.details = NotCalled <=>
               \/ s.capture = NotCalled
               \/ s.capture.raised
               \/ capture_accepted(s.capture.code)}

capture_data_NoFallback(script) == script.capture

\* capture_data: the capture response, or the details response after a capture
\* that was not accepted
capture_data(script) ==
    IF capture_accepted(script.capture.code) THEN script.capture ELSE script.details

paypal_completed_Any(status) == status # Null

paypal_completed(status) == status = "COMPLETED"

Outcome(status, detail, provider_status, calls) ==
    [status |-> status, detail |-> detail, provider_status |-> provider_status,
     calls |-> calls]

\* capture_paypal_order, from the token call to the status check
paypal_flow(script) ==
    IF script.token.raised \/ script.token.code >= 400
    THEN Outcome(400, "gateway_error", Null, 1)
    ELSE IF script.capture.raised
    THEN Outcome(400, "gateway_error", Null, 2)
    ELSE LET fallback == ~capture_accepted(script.capture.code)
             calls == IF fallback THEN 3 ELSE 2
             data == capture_data(script)
         IN IF fallback /\ script.details.raised
            THEN Outcome(400, "gateway_error", Null, calls)
            ELSE IF fallback /\ script.details.code # 200
            THEN Outcome(400, "verify_failed", Null, calls)
            ELSE IF ~paypal_completed(data.status)
            THEN Outcome(400, "not_completed", data.status, calls)
            ELSE Outcome(200, "success", data.status, calls)

\* capture_paypal_order: the orders update after a completed capture
paypal_update(row, paypal_order_id, t) ==
    [row EXCEPT !.payment_status = "paid", !.order_status = "confirmed",
                !.payment_method = "paypal", !.payment_intent_id = paypal_order_id,
                !.paid_at = t]

\* capture_paypal_order; the request is recorded with the provider order id it
\* named and the answers the provider had for it
PayPalCapture(order_id, paypal_order_id, script) ==
    LET found == order_id \in DOMAIN orders
        op == [paypal_order_id |-> paypal_order_id, script |-> script]
                  @@ Op("paypal_capture", order_id, Null, 0)
        out == paypal_flow(script)
    IN
    /\ IF ~paypal_configured(settings)
       THEN /\ last' = [op EXCEPT !.status = 500, !.detail = "not_configured"]
            /\ orders' = orders
       ELSE IF ~found
       THEN /\ last' = [op EXCEPT !.status = 404, !.detail = "not_found"]
            /\ orders' = orders
       ELSE /\ last' = [op EXCEPT !.status = out.status, !.detail = out.detail,
                                  !.type = out.provider_status, !.calls = out.calls]
            /\ orders' = IF out.status = 200
                         THEN [orders EXCEPT ![order_id] =
                                  paypal_update(@, paypal_order_id, now)]
                         ELSE orders
    /\ UNCHANGED <<stock, dc, order_items, req, now, ghost, settings>>

\* ------------------------------------------------------ payment histories
\* Two orders as checkout leaves them, with their item rows.
PlacedRequests ==
    <<[IdleReq EXCEPT !.subtotal = 450000, !.shipping_fee = 25000,
                      !.payment_method = "stripe"],
      [IdleReq EXCEPT !.subtotal = 900000, !.shipping_fee = 35000,
                      !.discount_amount = 90000, !.payment_method = "cod"]>>

PlacedItems ==
    <<[order_id |-> 1, product_id |-> "rose", variant_id |-> Null,
       quantity |-> 1, unit_price |-> 450000, total_price |-> 450000],
      [order_id |-> 2, product_id |-> "rose", variant_id |-> Null,
       quantity |-> 2, unit_price |-> 450000, total_price |-> 900000]>>

InitPay ==
    /\ stock = [p \in ProductRows |-> MaxStock]
    /\ dc = DiscountRow("percentage", 10, 0, 0, 1, NoStamp, NoStamp, TRUE)
    /\ orders = <<new_order(PlacedRequests[1], 0, 100), new_order(PlacedRequests[2], 0, 999)>>
    /\ order_items = PlacedItems
    /\ req = [r \in Slots |-> IdleReq]
    /\ now = 0
    /\ last = NoOp
    /\ ghost = [applied |-> 0, used_init |-> dc.used_count, delivered |-> {},
                stock_init |-> stock]
    /\ settings = Settings("sk_test", "client", "secret")

\* Webhook deliveries and admin updates on the two orders.
NextPay ==
    \/ \E payload \in WebhookPayloads : StripeWebhook(payload)
    \/ \E order_id \in OrderIdSamples, patch \in PatchSamples :
          AdminUpdate(order_id, patch)
    \/ Tick

SpecPay == InitPay /\ [][NextPay]_vars

\* One order, as the checkout with a discount left it, under any settings.
InitGateway ==
    /\ stock = [p \in ProductRows |-> MaxStock]
    /\ dc = DiscountRow("percentage", 10, 0, 0, 1, NoStamp, NoStamp, TRUE)
    /\ orders = <<new_order(PlacedRequests[2], 0, 100)>>
    /\ order_items = <<[PlacedItems[2] EXCEPT !.order_id = 1]>>
    /\ req = [r \in Slots |-> IdleReq]
    /\ now = 0
    /\ last = NoOp
    /\ ghost = [applied |-> 0, used_init |-> dc.used_count, delivered |-> {},
                stock_init |-> stock]
    /\ settings \in SettingsSamples

\* Every operation that writes an order after its creation.
NextGateway ==
    \/ \E order_id \in PathIdSamples, session_id \in SessionIds, created \in BOOLEAN :
          StripeCheckout(order_id, session_id, created)
    \/ \E payload \in WebhookPayloads : StripeWebhook(payload)
    \/ \E order_id \in PathIdSamples, paypal_order_id \in PayPalOrderIds,
          script \in PayPalScripts :
          PayPalCapture(order_id, paypal_order_id, script)
    \/ \E order_id \in PathIdSamples, patch \in PatchSamples :
          AdminUpdate(order_id, patch)
    \/ Tick

SpecGateway == InitGateway /\ [][NextGateway]_vars

\* ----------------------------------------------------------- claims C9-C10
IsCompletedEventFor(op, rows) ==
    /\ op.op = "stripe_webhook"
    /\ op.type = "checkout.session.completed"
    /\ op.order_id \in DOMAIN rows

\* C9: a checkout.session.completed event whose metadata carries the id of an
\* order makes exactly that order paid and confirmed with paid_at set, and
\* leaves every other order as it was.
C9_WebhookMarksExactlyThatOrder ==
    [][IsCompletedEventFor(last', orders) =>
          /\ DOMAIN orders' = DOMAIN orders
          /\ orders'[last'.order_id].payment_status = "paid"
          /\ orders'[last'.order_id].order_status = "confirmed"
          /\ orders'[last'.order_id].paid_at = now
          /\ orders'[last'.order_id].paid_at # NoTime
          /\ \A k \in DOMAIN orders : k # last'.order_id => orders'[k] = orders[k]]_vars

C9_Witness ==
    /\ IsCompletedEventFor(last, orders)
    /\ last.order_id = 2
    /\ orders[2].payment_status = "paid"
    /\ orders[2].order_status = "confirmed"
    /\ orders[2].paid_at = 1
    /\ orders[1].payment_status = "pending"

\* C10: replaying a checkout.session.completed event that was already applied
\* is a no-op: payment_status, order_status and paid_at of the order after the
\* replay are what they were just before it, also when an admin update has
\* moved the order on in between.
C10_ReplayIsNoOp ==
    [][(IsCompletedEventFor(last', orders) /\ last'.order_id \in ghost.delivered) =>
          /\ orders'[last'.order_id].payment_status = orders[last'.order_id].payment_status
          /\ orders'[last'.order_id].order_status = orders[last'.order_id].order_status
          /\ orders'[last'.order_id].paid_at = orders[last'.order_id].paid_at]_vars

\* ---------------------------------------------------------- claims C11-C14
\* C11: the Stripe webhook endpoint answers 200 for every event payload, and it
\* changes orders only for a checkout.session.completed event that carries an
\* order_id: any other delivery leaves all orders unchanged.
C11_WebhookAlwaysReceived ==
    [][last'.op = "stripe_webhook" =>
          /\ last'.status = 200
          /\ (last'.type # "checkout.session.completed" \/ last'.order_id = 0)
                 => orders' = orders]_vars

\* The provider's final word on a PayPal order: the capture response when the
\* capture call was accepted, the details response when it was not.
TokenGranted(script) == ~script.token.raised /\ script.token.code < 400

CaptureSucceeded(script) ==
    ~script.capture.raised /\ script.capture.code \in {200, 201}

DetailsSucceeded(script) == ~script.details.raised /\ script.details.code = 200

HasFinalStatus(script) ==
    /\ TokenGranted(script)
    /\ ~script.capture.raised
    /\ CaptureSucceeded(script) \/ DetailsSucceeded(script)

FinalStatus(script) ==
    IF CaptureSucceeded(script) THEN script.capture.status ELSE script.details.status

\* C12: PayPal capture returns success only when the final provider status
\* (of the capture call or of the fallback details call) is COMPLETED; for any
\* other final status it returns a 400 carrying that status and leaves the
\* order's payment_status, order_status, payment_method, payment_intent_id and
\* paid_at as they were.
C12_PayPalSuccessOnlyWhenCompleted ==
    [][last'.op = "paypal_capture" =>
          LET order_id == last'.order_id
              script == last'.script
          IN  /\ last'.status = 200 =>
                     HasFinalStatus(script) /\ FinalStatus(script) = "COMPLETED"
              /\ (/\ paypal_configured(settings)
                  /\ order_id \in DOMAIN orders
                  /\ HasFinalStatus(script)
                  /\ FinalStatus(script) # "COMPLETED") =>
                     /\ last'.status = 400
                     /\ last'.detail = "not_completed"
                     /\ last'.type = FinalStatus(script)
                     /\ orders' = orders]_vars

C12_Witness ==
    /\ last.op = "paypal_capture"
    /\ last.order_id = 1
    /\ last.status = 400
    /\ last.type = "APPROVED"
    /\ last.calls = 3
    /\ orders[1].payment_status = "pending"
    /\ orders[1].payment_intent_id = "cs_1"

CredentialsMissing(op, st) ==
    \/ op = "stripe_checkout" /\ st.stripe_secret_key = ""
    \/ op = "paypal_capture"
          /\ (st.paypal_client_id = "" \/ st.paypal_client_secret = "")

\* C13: for both payment adapters, a request made while the provider's
\* credentials are missing fails with 500 NotConfigured, before any call to the
\* provider and without modifying any order.
C13_NotConfiguredBeforeAnyCall ==
    [][CredentialsMissing(last'.op, settings) =>
          /\ last'.status = 500
          /\ last'.detail = "not_configured"
          /\ last'.calls = 0
          /\ orders' = orders]_vars

C13_Witness ==
    /\ last.op = "paypal_capture"
    /\ last.order_id = 1
    /\ last.status = 500
    /\ settings.paypal_client_id # ""
    /\ settings.paypal_client_secret = ""
    /\ orders[1].payment_status = "pending"

Owners(k) == {r \in Slots : req[r].order_id = k}

OrderStatusEdges ==
    {<<"pending", "confirmed">>, <<"confirmed", "processing">>,
     <<"processing", "delivered">>, <<"pending", "cancelled">>,
     <<"confirmed", "cancelled">>}

\* C15: every change of an order's order_status, by any operation, follows one
\* of the edges pending->confirmed, confirmed->processing, processing->delivered,
\* pending->cancelled, confirmed->cancelled.
C15_OrderStatusFollowsEdges ==
    [][\A k \in DOMAIN orders :
          orders'[k].order_status # orders[k].order_status =>
              <<orders[k].order_status, orders'[k].order_status>> \in OrderStatusEdges]_vars

PaymentStatusEdges ==
    {<<"pending", "paid">>, <<"pending", "failed">>, <<"paid", "refunded">>}

\* C16: every change of an order's payment_status, by any operation, follows
\* one of the edges pending->paid, pending->failed, paid->refunded; a refunded or
\* failed order never becomes paid again.
C16_PaymentStatusFollowsEdges ==
    [][\A k \in DOMAIN orders :
          orders'[k].payment_status # orders[k].payment_status =>
              <<orders[k].payment_status, orders'[k].payment_status>>
                  \in PaymentStatusEdges]_vars

\* C17: an order's payment_status becomes paid only by a confirmation verified
\* with the provider: a completed-session event that Stripe sent, or a PayPal
\* capture whose provider status is COMPLETED.
C17_PaidOnlyWhenVerified ==
    [][\A k \in DOMAIN orders :
          (orders'[k].payment_status = "paid" /\ orders[k].payment_status # "paid") =>
              \/ last'.op = "stripe_webhook" /\ last'.genuine
              \/ last'.op = "paypal_capture" /\ last'.type = "COMPLETED"]_vars

\* ---------------------------------------------------------- claims C18-C20
\* C18: the admin status update answers a patch with no field set with 400 and
\* leaves the orders unchanged; a patch with a field set for an unknown order id
\* answers 404.
C18_EmptyPatchRejected ==
    [][last'.op = "admin_update" =>
       \A order_id \in {last'.order_id}, patch \in PatchSamples :
          AdminUpdate(order_id, patch) =>
              /\ (\A f \in DOMAIN patch : patch[f] = Unset) =>
                     last'.status = 400 /\ orders' = orders
              /\ ((\E f \in DOMAIN patch : patch[f] # Unset)
                     /\ order_id \notin DOMAIN orders) =>
                     last'.status = 404 /\ orders' = orders]_vars

C18_Witness ==
    /\ last.op = "admin_update"
    /\ last.status = 400
    /\ last.order_id = 1
    /\ orders[1].order_status = "delivered"
    /\ orders[1].payment_status = "refunded"

\* C19: creating a Stripe checkout session charges the order's stored total as
\* a single line item and changes only the order's payment_intent_id, set to the
\* session id; when the provider call fails, or the request is refused, no order
\* changes.
C19_StripeSessionChargesTotal ==
    [][last'.op = "stripe_checkout" =>
       \A order_id \in {last'.order_id}, session_id \in SessionIds, created \in BOOLEAN :
          StripeCheckout(order_id, session_id, created) =>
              /\ last'.calls > 0 =>
                     /\ Len(last'.line_items) = 1
                     /\ last'.line_items[1].unit_amount = orders[order_id].total
                     /\ last'.line_items[1].quantity = 1
              /\ last'.status = 200 =>
                     /\ created
                     /\ orders' = [orders EXCEPT ![order_id].payment_intent_id = session_id]
              /\ last'.status # 200 => orders' = orders
              /\ (stripe_configured(settings) /\ order_id \in DOMAIN orders /\ created)
                     => last'.status = 200]_vars

C19_Witness ==
    /\ last.op = "stripe_checkout"
    /\ last.status = 200
    /\ last.order_id = 1
    /\ last.line_items[1].unit_amount = orders[1].total
    /\ orders[1].total # orders[1].subtotal
    /\ orders[1].payment_intent_id = "cs_1"
    /\ orders[1].payment_status = "paid"
    /\ orders[1].order_status = "processing"

\* C20: whenever the final PayPal status is COMPLETED, from the capture call or,
\* after a capture call that was not accepted, from the details call, the order
\* becomes paid/confirmed with payment_method paypal, payment_intent_id the
\* provider order id and paid_at set; when the details call fails as well, an
\* error is returned and the order is unchanged.
C20_PayPalCompletedMarksPaid ==
    [][(/\ last'.op = "paypal_capture"
        /\ paypal_configured(settings)
        /\ last'.order_id \in DOMAIN orders) =>
          LET order_id == last'.order_id
              paypal_order_id == last'.paypal_order_id
              script == last'.script
          IN
              /\ (HasFinalStatus(script) /\ FinalStatus(script) = "COMPLETED") =>
                     /\ last'.status = 200
                     /\ orders' = [orders EXCEPT
                            ![order_id].payment_status = "paid",
                            ![order_id].order_status = "confirmed",
                            ![order_id].payment_method = "paypal",
                            ![order_id].payment_intent_id = paypal_order_id,
                            ![order_id].paid_at = now]
                     /\ orders'[order_id].paid_at # NoTime
              /\ (/\ TokenGranted(script)
                  /\ ~script.capture.raised
                  /\ ~CaptureSucceeded(script)
                  /\ ~DetailsSucceeded(script)) =>
                     /\ last'.status = 400
                     /\ orders' = orders]_vars

C20_Witness ==
    /\ last.op = "paypal_capture"
    /\ last.status = 200
    /\ last.calls = 3
    /\ last.order_id = 1
    /\ orders[1].payment_status = "paid"
    /\ orders[1].order_status = "confirmed"
    /\ orders[1].payment_method = "paypal"
    /\ orders[1].payment_intent_id = "PAY-1"
    /\ orders[1].paid_at = 1

\* ---------------------------------------------------------------- claim C21
PaidByPayPal(row, paypal_order_id) ==
    /\ row.payment_status = "paid"
    /\ row.payment_method = "paypal"
    /\ row.payment_intent_id = paypal_order_id

\* C21: a PayPal capture submitted again for an order that the same provider
\* order id already marked paid, the provider reporting COMPLETED again, returns
\* success and is a no-op: payment_status, order_status, payment_method,
\* payment_intent_id and paid_at keep the values they had before it.
C21_PayPalReplayIsNoOp ==
    [][(/\ last'.op = "paypal_capture"
        /\ paypal_configured(settings)
        /\ last'.order_id \in DOMAIN orders
        /\ PaidByPayPal(orders[last'.order_id], last'.paypal_order_id)
        /\ HasFinalStatus(last'.script)
        /\ FinalStatus(last'.script) = "COMPLETED") =>
          LET before == orders[last'.order_id]
              after == orders'[last'.order_id]
          IN /\ last'.status = 200
             /\ after.payment_status = before.payment_status
             /\ after.order_status = before.order_status
             /\ after.payment_method = before.payment_method
             /\ after.payment_intent_id = before.payment_intent_id
             /\ after.paid_at = before.paid_at]_vars

\* ---------------------------------------------------------------- claim C22
\* The steps of a checkout as the claim lists them, in its order.
StepRank(step) ==
    CASE step = "validate" -> 1
      [] step = "price" -> 2
      [] step = "discount" -> 3
      [] step = "order" -> 4
      [] step = "item" -> 5
      [] step = "stock" -> 6

\* The same with the validation and the pricing of the lines as one phase.
PhaseRank(step) == IF step = "validate" THEN 2 ELSE StepRank(step)

Count(log, step) == Cardinality({k \in DOMAIN log : log[k] = step})

WriteSteps == {"discount", "order", "item", "stock"}

Logged(r, step) == req'[r].log = Append(req[r].log, step)

\* C22, as stated: within one checkout the steps happen strictly in the order
\* validation of every cart line, pricing, used_count increment, order insert,
\* item inserts, stock decrements.
C22_StrictStepOrder ==
    \A r \in Slots :
        \A j, k \in DOMAIN req[r].log :
            j < k => StepRank(req[r].log[j]) <= StepRank(req[r].log[k])

\* C22, amended: within one checkout the lines are validated and priced one
\* after the other, each line validated before it is priced; then come the
\* used_count increment (if a code applies), the order insert, the item inserts
\* and the stock decrements, in this order.  No write happens before every line
\* is validated and priced, every write to a table is the step of that name, and
\* no stock is decremented before the order row exists and every item insert
\* was made.
C22_StepsInOrder ==
    /\ [](\A r \in Slots :
            LET log == req[r].log IN
            /\ \A j, k \in DOMAIN log :
                   j < k => PhaseRank(log[j]) <= PhaseRank(log[k])
            /\ \A k \in DOMAIN log :
                   log[k] = "price" => (k > 1 /\ log[k - 1] = "validate")
            /\ (\E k \in DOMAIN log : log[k] \in WriteSteps) =>
                   /\ Count(log, "validate") = Len(req[r].items)
                   /\ Count(log, "price") = Len(req[r].items)
            /\ Count(log, "discount") <= 1
            /\ Count(log, "order") <= 1
            /\ Count(log, "item") > 0 => Count(log, "order") = 1
            /\ Count(log, "stock") > 0 => Count(log, "item") = Len(req[r].items))
    /\ [][/\ dc' # dc => \E r \in Slots : Logged(r, "discount")
          /\ orders' # orders => \E r \in Slots : Logged(r, "order")
          /\ order_items' # order_items => \E r \in Slots : Logged(r, "item")
          /\ stock' # stock =>
                \E r \in Slots : /\ Logged(r, "stock")
                                 /\ req[r].order_id \in DOMAIN orders]_vars

C22_Witness ==
    \E r \in Slots :
        /\ req[r].pc = "done"
        /\ req[r].log = <<"validate", "price", "validate", "price", "discount",
                          "order", "item", "item", "stock", "stock">>

\* ---------------------------------------------------------------- claim C23
OrderInsertFailedAfterDiscount(q) ==
    /\ q.pc = "failed"
    /\ q.detail = "insert_failed"
    /\ q.applied

\* C23: if the order row insert fails after a discount code was applied, the
\* checkout answers 500, no order row and no order item exist, no stock is
\* decremented, and the used_count increment made for the code is kept.
C23_FailedInsertKeepsUsedCount ==
    \A r \in Slots :
        OrderInsertFailedAfterDiscount(req[r]) =>
            /\ req[r].status = 500
            /\ orders = <<>>
            /\ order_items = <<>>
            /\ req[r].created_items = <<>>
            /\ stock = req[r].stock0
            /\ dc.used_count = req[r].used0 + 1
            /\ req[r].log[Len(req[r].log)] = "discount"

C23_Witness ==
    \E r \in Slots :
        /\ OrderInsertFailedAfterDiscount(req[r])
        /\ req[r].discount_amount > 0
        /\ dc.used_count = req[r].used0 + 1

\* ---------------------------------------------------------------- claim C24
\* The order row was written and at least one of its item inserts failed.
ItemInsertFailed(q) ==
    /\ q.pc \in {"stock_select", "stock_update", "done"}
    /\ Len(q.created_items) < Len(q.order_items)

\* C24: if the order row is written and the insert of one or more of its item
\* rows fails, nothing is rolled back: the order row stays with its full
\* computed total, exactly the item rows that succeeded exist for it, the
\* used_count increment is kept, and the checkout goes on to answer 200.
C24_NoRollbackOnItemFailure ==
    \A r \in Slots :
        LET q == req[r] IN
        ItemInsertFailed(q) =>
            /\ q.order_id \in DOMAIN orders
            /\ orders[q.order_id].total = q.subtotal + q.shipping_fee - q.discount_amount
            /\ orders[q.order_id].subtotal = SumTotal(q.order_items)
            /\ ItemsOf(q.order_id) = q.created_items
            /\ Len(ItemsOf(q.order_id)) < Len(q.items)
            /\ q.applied => dc.used_count = q.used0 + 1
            /\ q.pc = "done" => q.status = 200

C24_Witness ==
    \E r \in Slots :
        /\ ItemInsertFailed(req[r])
        /\ req[r].pc = "done"
        /\ Len(req[r].created_items) = 1
        /\ Len(req[r].order_items) = 2
        /\ req[r].applied

\* ---------------------------------------------------------------- claim C25
\* A checkout that succeeded asked, on every line, for no more than the stock
\* that line read.
WithinStockRead(q) ==
    /\ Len(q.seen) = Len(q.items)
    /\ \A k \in DOMAIN q.items : q.items[k].quantity <= q.seen[k]

\* A checkout that applied the code read a used_count below max_uses.
WithinUsesRead(q) == q.applied => (dc.max_uses = 0 \/ q.d_used < dc.max_uses)

RECURSIVE Quantity(_, _)
Quantity(items, p) ==
    IF items = <<>> THEN 0
    ELSE (IF Head(items).product_id = p THEN Head(items).quantity ELSE 0)
         + Quantity(Tail(items), p)

\* C25: two concurrent checkouts for the same product, each asking for a
\* quantity within the stock it read, and each applying the code on a used_count
\* it read below max_uses, can both succeed: every checkout that succeeds passed
\* its own reads, and the state where both succeeded, their combined quantity
\* is above the initial stock and the code with one use left was applied twice
\* is reached (C25_Witness).
C25_EachSuccessWithinItsReads ==
    \A r \in Slots :
        req[r].pc = "done" => (WithinStockRead(req[r]) /\ WithinUsesRead(req[r]))

C25_Witness ==
    /\ \A r \in Slots : req[r].pc = "done" /\ req[r].applied
    /\ Quantity(req[1].items, "rose") + Quantity(req[2].items, "rose")
           > ghost.stock_init["rose"]
    /\ \A r \in Slots : Quantity(req[r].items, "rose") <= ghost.stock_init["rose"]
    /\ dc.max_uses = ghost.used_init + 1
    /\ ghost.applied = 2
    /\ Len(orders) = 2

\* ---------------------------------------------------------------- claim C26
Sold(p) ==
    Quantity(IF req[1].pc = "done" THEN req[1].items ELSE <<>>, p)
    + Quantity(IF req[2].pc = "done" THEN req[2].items ELSE <<>>, p)

\* C26: after any set of checkouts, sequential or concurrent, each product's
\* stock_quantity is its initial stock minus the total quantity of that product
\* over the cart lines of the checkouts that succeeded: no decrement is lost
\* and none is applied twice.
C26_StockIsInitialMinusSold ==
    (\A r \in Slots : req[r].pc \in {"idle", "done", "failed"}) =>
        \A p \in ProductRows : stock[p] = ghost.stock_init[p] - Sold(p)

\* ---------------------------------------------------------------- claim C29
\* C29: after any sequence of non-concurrent checkouts starting from
\* non-negative stock, every product's stock_quantity stays >= 0, also for
\* carts that list the same product on several lines.
C29_StockNeverNegative ==
    \A p \in ProductRows : ghost.stock_init[p] >= 0 => stock[p] >= 0

\* ------------------------------------------------------ pricing histories
\* Districts as customers write them: the table keys, the same with the
\* locale prefix, names with a space, and a district the table does not have.
PricingDistricts ==
    {<<"1">>,
     <<"Q", "u", "a^", "n", " ", "1">>,
     <<"q", "u", "a", "n", " ", "1">>,
     <<"T", "a", "n", " ", "B", "i", "n", "h">>,
     <<"G", "o", " ", "V", "a", "p">>,
     <<"9">>}

\* Rows of discount_codes with no limit of use, date or order value.
PricingDiscounts ==
    {DiscountRow("percentage", 10, 0, 0, 0, NoStamp, NoStamp, TRUE),
     DiscountRow("percentage", 100, 0, 0, 0, NoStamp, NoStamp, TRUE),
     DiscountRow("fixed", 50000, 0, 0, 0, NoStamp, NoStamp, TRUE),
     DiscountRow("fixed", 600000, 0, 0, 0, NoStamp, NoStamp, TRUE)}

\* Carts of one line of a published product.
PricingOrderData ==
    {od \in [items : CartSamples, district : PricingDistricts,
             discount_code : CodeSamples, payment_method : {"cod"}] :
        /\ Len(od.items) = 1
        /\ od.items[1].product_id \in {"rose", "lily"}}

InitPricing ==
    /\ stock = [p \in ProductRows |-> MaxStock]
    /\ dc \in PricingDiscounts
    /\ orders = <<>>
    /\ order_items = <<>>
    /\ req = [r \in Slots |-> IdleReq]
    /\ now = 0
    /\ last = NoOp
    /\ ghost = [applied |-> 0, used_init |-> dc.used_count, delivered |-> {},
                stock_init |-> stock]
    /\ settings = Settings("sk_test", "client", "secret")

\* One checkout of a one-line cart, every insert returning its row.
NextPricing ==
    \/ \E od \in PricingOrderData : Checkout(1, od)
    \/ ValidateLine(1)
    \/ DiscountSelect(1)
    \/ DiscountUpdate(1)
    \/ \E suffix \in OrderNumberSuffixes : InsertOrder(1, suffix, TRUE)
    \/ InsertItem(1, TRUE)
    \/ StockSelect(1)
    \/ StockUpdate(1)
    \/ Tick

SpecPricing == InitPricing /\ [][NextPricing]_vars

\* ---------------------------------------------------------------- claim C27
\* The normalisation as documented: lower-case, strip the locale prefix, then
\* spaces to underscores.
StripPrefix(s, prefix) ==
    IF StartsWith(s, prefix) THEN SubSeq(s, Len(prefix) + 1, Len(s)) ELSE s

NormalizedKey(district) ==
    Replace(StripPrefix(StripPrefix(Lower(district), <<"q", "u", "a^", "n", " ">>),
                        <<"q", "u", "a", "n", " ">>),
            <<" ">>, <<"_">>)

\* C27: the shipping fee of an order is the fee of the normalized district key
\* (lower-cased, locale prefix 'quận ' / 'quan ' stripped, spaces to
\* underscores): 'Quận 1', 'quan 1' and '1' get the fee of key '1' (25000),
\* 'Tan Binh' the fee of 'tan_binh', and a district not in the table 35000.
C27_FeeOfNormalizedKey ==
    \A r \in Slots :
        req[r].order_id \in DOMAIN orders =>
            orders[req[r].order_id].shipping_fee
                = district_fees(NormalizedKey(req[r].district))

\* ---------------------------------------------------------------- claim C28
\* C28: for every order created by checkout, subtotal, shipping_fee,
\* discount_amount and total are non-negative; the discount never drives the
\* total below zero.
C28_AmountsNonNegative ==
    \A k \in DOMAIN orders :
        /\ orders[k].subtotal >= 0
        /\ orders[k].shipping_fee >= 0
        /\ orders[k].discount_amount >= 0
        /\ orders[k].total >= 0

\* ------------------------------------------------------ capture histories
\* Two provider order ids: the customers of two orders each approved one.
CaptureOrderIds == {"PAY-1", "PAY-2"}

\* Capture requests on the two orders, for either provider order id.
NextCapture ==
    \/ \E order_id \in PathIdSamples, paypal_order_id \in CaptureOrderIds,
          script \in PayPalScripts :
          PayPalCapture(order_id, paypal_order_id, script)
    \/ Tick

SpecCapture == InitPay /\ [][NextCapture]_vars

\* ---------------------------------------------------------------- claim C30
\* C30: one PayPal provider order id marks at most one internal order as paid:
\* after any sequence of capture requests no two distinct orders are both paid
\* with the same payment_intent_id.
C30_ProviderOrderPaysOneOrder ==
    \A a, b \in DOMAIN orders :
        (/\ a # b
         /\ orders[a].payment_status = "paid"
         /\ orders[b].payment_status = "paid"
         /\ orders[a].payment_intent_id # Null) =>
            orders[a].payment_intent_id # orders[b].payment_intent_id

====
